---------------------------- MODULE Spec2Model ----------------------------
(*************************************************************************)
(* Quasi-stable coloring refinement engine                               *)
(* (examples/QuasiStableColoring/quasiStableColoring.py).                *)
(*                                                                       *)
(* Colors are numbered from 0 as in the source; a color is the sequence  *)
(* of its node ids (a 1-D tensor).  Matrices are functions of a row      *)
(* index giving functions of a column index.  Of the backing buffers     *)
(* upper_base / lower_base / errors_base only the active block [:m, :m]  *)
(* is carried, together with the capacity n: where n >= m the source     *)
(* reads and writes nothing outside that block, and where n < m the      *)
(* slice [:m, :m] is too small for the rows written to it and the write  *)
(* raises.  Arithmetic is exact: a mean is kept as the pair (sum, count) *)
(* and compared by cross-multiplication.                                 *)
(*                                                                       *)
(* pc is the position of the call: "constructed" before q_color,         *)
(* "loop" at the head of an iteration, "stopped" after the final report, *)
(* "failed" after an assertion of split_color failed, "raised" after a   *)
(* tensor operation raised (RuntimeError / IndexError).                  *)
(*************************************************************************)
EXTENDS Integers, Sequences, FiniteSets, TLC

VARIABLES G, p, q_error, n_colors, q_errors, color_status_out,
          color_status_in, locals, pc

vars == <<G, p, q_error, n_colors, q_errors, color_status_out,
          color_status_in, locals, pc>>

-----------------------------------------------------------------------------
(* Bounds of the explored inputs. *)

\* largest number of nodes of an input graph
MaxNodes == 4

\* largest total edge weight of an input graph
MaxTotalWeight == 4

\* largest integral color cap passed to q_color (halves above it included;
\* the caps passed go down to -1)
MaxColors == 2

\* largest error tolerance passed to q_color
MaxQErrors == 1

-----------------------------------------------------------------------------
(* Numbers the source writes as floats. *)

\* np.inf / np.Inf
Inf == [inf |-> TRUE, halves |-> 0]

\* a finite value x, carried in halves so that a non-integral color cap
\* (quasiStable.py passes num_nodes * 0.01) is representable
Halves(h) == [inf |-> FALSE, halves |-> h]

Fin(x) == Halves(2 * x)

\* faulty LessThanCap: the loop gives up one color early
LessThanCap_early(m, nc) == nc.inf \/ 2 * (m + 1) < nc.halves

\* faulty LessThanCap: <= in place of <
LessThanCap_le(m, nc) == nc.inf \/ 2 * m <= nc.halves

\* len(self.p) < n_colors
LessThanCap(m, nc) == nc.inf \/ 2 * m < nc.halves

BASE_MATRIX_SIZE == 128

\* int(min(n_colors, self.BASE_MATRIX_SIZE)); int() truncates toward zero
Capacity(nc) ==
    IF nc.inf \/ nc.halves >= 2 * BASE_MATRIX_SIZE
    THEN BASE_MATRIX_SIZE
    ELSE IF nc.halves >= 0
    THEN nc.halves \div 2
    ELSE 0 - ((0 - nc.halves) \div 2)

-----------------------------------------------------------------------------
(* Reductions. *)

Range0(n) == 0 .. (n - 1)

\* the element of a one-element set; Only({F(x) : x \in {e}}) is F(e) with e
\* evaluated once
Only(S) == CHOOSE x \in S : TRUE

MaxOf(S) == CHOOSE x \in S : \A y \in S : y <= x

MinOf(S) == CHOOSE x \in S : \A y \in S : x <= y

RECURSIVE SumTo(_, _)
\* f[1] + ... + f[k]
SumTo(f, k) == IF k = 0 THEN 0 ELSE SumTo(f, k - 1) + f[k]

\* X.sum() of a 1-D tensor X
SumSeq(X) == Only({SumTo(f, Len(f)) : f \in {X}})

\* the values of column j of neighbor at the rows X: neighbor[X, j]
Gather(neighbor, X, j) == [k \in 1 .. Len(X) |-> neighbor[X[k]][j]]

ValuesOf(X) == {X[k] : k \in 1 .. Len(X)}

\* torch.arange(n)
arange(n) == [k \in 1 .. n |-> k - 1]

\* len(self.p)
NumColors(q) == Cardinality(DOMAIN q)

\* weights.t()
Transpose(w) == [r \in DOMAIN w |-> [c \in DOMAIN w |-> w[c][r]]]

-----------------------------------------------------------------------------
(* ColorStatus *)

\* torch.zeros((n, n)) / torch.full((n, n)) raise RuntimeError for n < 0
Constructible(n) == n >= 0

\* the slice base[:m, :m] of an n x n buffer is m x m only if m <= n; a
\* smaller slice cannot take a row of m entries (IndexError for a row past
\* its end, RuntimeError for a row of the wrong length)
Fits(cs, m) == m <= cs.n

\* ColorStatus.__init__: neighbor is None, the active block is empty
ColorStatus(n) ==
    [n |-> n, neighbor |-> <<>>, upper |-> <<>>, lower |-> <<>>,
     errors |-> <<>>]

\* ColorStatus.resize: the capacity grows, the content is copied
resize(cs, n) == [cs EXCEPT !.n = n]

-----------------------------------------------------------------------------
(* QuasiStableColoring *)

v == G.num_nodes

\* partition_matrix, densified: entry [x][c] sums one per occurrence of
\* node x in color c
partition_matrix(q, nv) ==
    [x \in Range0(nv) |->
        [c \in DOMAIN q |->
            Cardinality({k \in 1 .. Len(q[c]) : q[c][k] = x})]]

\* torch.mm(weights, P)
MatMul(weights, P, nv, m) ==
    [node \in Range0(nv) |->
        [c \in Range0(m) |->
            SumSeq([k \in 1 .. nv |-> weights[node][k - 1] * P[k - 1][c]])]]

\* upper_deg - lower_deg over the active block
Spread(upper, lower, m) ==
    [i \in Range0(m) |-> [j \in Range0(m) |-> upper[i][j] - lower[i][j]]]

\* torch.max(neighbor[X, :], dim=0)[0], entry j
RowMax(neighbor, X, j) == MaxOf(ValuesOf(Gather(neighbor, X, j)))

\* torch.min(neighbor[X, :], dim=0)[0], entry j
RowMin(neighbor, X, j) == MinOf(ValuesOf(Gather(neighbor, X, j)))

\* init_status: ok is FALSE when the write of the first row raises, and
\* then neighbor is set and the buffers are as they were
init_status(cs, weights, q, nv) ==
    LET m == NumColors(q)
        Status(neighbor, upper, lower) ==
            [n |-> cs.n, neighbor |-> neighbor, upper |-> upper,
             lower |-> lower, errors |-> Spread(upper, lower, m)]
        Bounds(neighbor) ==
            IF Fits(cs, m)
            THEN [ok |-> TRUE,
                  cs |-> Only({Status(neighbor, upper, lower) :
                     upper \in {[i \in Range0(m) |-> [j \in Range0(m) |->
                                    RowMax(neighbor, q[i], j)]]},
                     lower \in {[i \in Range0(m) |-> [j \in Range0(m) |->
                                    RowMin(neighbor, q[i], j)]]}})]
            ELSE [ok |-> FALSE, cs |-> [cs EXCEPT !.neighbor = neighbor]]
    IN  Only({Bounds(neighbor) :
                 neighbor \in {MatMul(weights, partition_matrix(q, nv), nv, m)}})

\* torch.cat((neighbor, new_column), dim=1): one zero column appended
ExpandNeighbor(neighbor) ==
    [node \in DOMAIN neighbor |->
        LET k == Cardinality(DOMAIN neighbor[node])
        IN  [c \in 0 .. k |-> IF c < k THEN neighbor[node][c] ELSE 0]]

\* weights[:, X].sum(axis=1): per row, the summed weight toward the nodes X
Degs(weights, X) ==
    [node \in DOMAIN weights |->
        SumSeq([k \in 1 .. Len(X) |-> weights[node][X[k]]])]

\* neighbor[:, c] = degs
SetColumn(neighbor, c, degs) ==
    [node \in DOMAIN neighbor |-> [neighbor[node] EXCEPT ![c] = degs[node]]]

\* torch.max(neighbor[X, j])
ColMax(neighbor, X, j) == MaxOf(ValuesOf(Gather(neighbor, X, j)))

\* torch.min(neighbor[X, j])
ColMin(neighbor, X, j) == MinOf(ValuesOf(Gather(neighbor, X, j)))

\* update_status: the neighbor matrix after the column for the new color is
\* added and the columns old and new are recomputed
UpdatedNeighbor(cs, weights, q, old, new) ==
    SetColumn(SetColumn(ExpandNeighbor(cs.neighbor), old, Degs(weights, q[old])),
              new, Degs(weights, q[new]))

\* faulty UpdatedUpper: rows old and new take the maximum over all nodes
\* (the row index is dropped); the entries in columns old and new are right
UpdatedUpper_allrows(prev, neighbor, q, old, new) ==
    [i \in DOMAIN q |->
        [j \in DOMAIN q |->
            IF j = old \/ j = new
            THEN ColMax(neighbor, q[i], j)
            ELSE IF i = old \/ i = new
            THEN MaxOf({neighbor[node][j] : node \in DOMAIN neighbor})
            ELSE prev[i][j]]]

\* faulty UpdatedUpper: the entries in column old of the other rows are
\* left as they were
UpdatedUpper_rows(prev, neighbor, q, old, new) ==
    [i \in DOMAIN q |->
        [j \in DOMAIN q |->
            IF i = old \/ i = new \/ j = new
            THEN ColMax(neighbor, q[i], j)
            ELSE prev[i][j]]]

\* update_status: rows old and new of upper_deg are recomputed over all
\* columns, then for every color the entries in columns old and new; every
\* other entry keeps its value
UpdatedUpper(prev, neighbor, q, old, new) ==
    [i \in DOMAIN q |->
        [j \in DOMAIN q |->
            IF i = old \/ i = new \/ j = old \/ j = new
            THEN ColMax(neighbor, q[i], j)
            ELSE prev[i][j]]]

\* update_status: the same for lower_deg
UpdatedLower(prev, neighbor, q, old, new) ==
    [i \in DOMAIN q |->
        [j \in DOMAIN q |->
            IF i = old \/ i = new \/ j = old \/ j = new
            THEN ColMin(neighbor, q[i], j)
            ELSE prev[i][j]]]

\* update_status: ok is FALSE when the write of row old raises, and then
\* neighbor is updated and the buffers are as they were
update_status(cs, weights, q, old, new) ==
    LET m == NumColors(q)
        Status(neighbor, upper, lower) ==
            [n |-> cs.n, neighbor |-> neighbor, upper |-> upper,
             lower |-> lower, errors |-> Spread(upper, lower, m)]
        Bounds(neighbor) ==
            IF Fits(cs, m)
            THEN [ok |-> TRUE,
                  cs |-> Only({Status(neighbor, upper, lower) :
                     upper \in {UpdatedUpper(cs.upper, neighbor, q, old, new)},
                     lower \in {UpdatedLower(cs.lower, neighbor, q, old, new)}})]
            ELSE [ok |-> FALSE, cs |-> [cs EXCEPT !.neighbor = neighbor]]
    IN  Only({Bounds(neighbor) :
                 neighbor \in {UpdatedNeighbor(cs, weights, q, old, new)}})

\* entry t of the flattened m x m block
Flat(errors, m, t) == errors[t \div m][t % m]

\* torch.argmax of the flattened m x m block: the first maximal index
argmax(errors, m) ==
    CHOOSE t \in Range0(m * m) :
        /\ \A u \in Range0(m * m) : Flat(errors, m, u) <= Flat(errors, m, t)
        /\ \A u \in Range0(t) : Flat(errors, m, u) < Flat(errors, m, t)

\* faulty mean: the maximum in place of the mean
mean_max(X) == [sum |-> MaxOf(ValuesOf(X)), count |-> 1]

\* X.mean(), kept exact
mean(X) == Only({[sum |-> SumSeq(f), count |-> Len(f)] : f \in {X}})

\* x > threshold for a threshold that is a mean
Above(x, threshold) == x * threshold.count > threshold.sum

\* faulty pick_witness: the mean is taken over column i instead of column j
pick_witness_column(cs, q) ==
    LET m == NumColors(q)
        Witness(i, j) ==
            [i |-> i, j |-> j,
             split_deg |-> mean(Gather(cs.neighbor, q[i], i)),
             q_error |-> cs.errors[i][j]]
    IN  Only({Witness(t \div m, t % m) : t \in {argmax(cs.errors, m)}})

pick_witness(cs, q) ==
    LET m == NumColors(q)
        Witness(i, j) ==
            [i |-> i, j |-> j,
             split_deg |-> mean(Gather(cs.neighbor, q[i], j)),
             q_error |-> cs.errors[i][j]]
    IN  Only({Witness(t \div m, t % m) : t \in {argmax(cs.errors, m)}})

\* faulty split_color: the split color keeps all its members
split_color_keep(cs, q, witness_i, witness_j, threshold) ==
    LET arr == q[witness_i]
        Ejected(x) == Above(cs.neighbor[x][witness_j], threshold)
        Retained(x) == ~Ejected(x)
        retain == SelectSeq(arr, Retained)
        eject == SelectSeq(arr, Ejected)
        m == NumColors(q)
    IN  IF Len(retain) # 0 /\ Len(eject) # 0
        THEN [ok |-> TRUE,
              p |-> [c \in 0 .. m |-> IF c = m THEN eject ELSE q[c]]]
        ELSE [ok |-> FALSE, p |-> q]

\* faulty split_color: retain and eject exchanged
split_color_swapped(cs, q, witness_i, witness_j, threshold) ==
    LET arr == q[witness_i]
        Ejected(x) == Above(cs.neighbor[x][witness_j], threshold)
        Retained(x) == ~Ejected(x)
        retain == SelectSeq(arr, Retained)
        eject == SelectSeq(arr, Ejected)
        m == NumColors(q)
    IN  IF Len(retain) # 0 /\ Len(eject) # 0
        THEN [ok |-> TRUE,
              p |-> [c \in 0 .. m |->
                        IF c = m THEN retain
                        ELSE IF c = witness_i THEN eject ELSE q[c]]]
        ELSE [ok |-> FALSE, p |-> q]

\* split_color: ok is FALSE when one of the two assertions fails, and then
\* the partition is left as it was
split_color(cs, q, witness_i, witness_j, threshold) ==
    LET arr == q[witness_i]
        Ejected(x) == Above(cs.neighbor[x][witness_j], threshold)
        Retained(x) == ~Ejected(x)
        retain == SelectSeq(arr, Retained)
        eject == SelectSeq(arr, Ejected)
        m == NumColors(q)
    IN  IF Len(retain) # 0 /\ Len(eject) # 0
        THEN [ok |-> TRUE,
              p |-> [c \in 0 .. m |->
                        IF c = m THEN eject
                        ELSE IF c = witness_i THEN retain ELSE q[c]]]
        ELSE [ok |-> FALSE, p |-> q]

-----------------------------------------------------------------------------
(* q_color *)

\* self.G.adj_t
weights == G.adj_t

\* the scipy copy of the same matrix
weights_cpu == weights

weights_transpose == Transpose(weights)

weights_transpose_cpu == Transpose(weights_cpu)

\* the doubling at the head of an iteration
Grown(cs) ==
    IF NumColors(p) = color_status_in.n THEN resize(cs, cs.n * 2) ELSE cs

pick_in == pick_witness(color_status_in, p)

pick_out == pick_witness(color_status_out, p)

\* faulty Tolerated: < in place of <=
Tolerated_strict == pick_in.q_error < q_errors /\ pick_out.q_error < q_errors

\* faulty Tolerated: or in place of and
Tolerated_either == pick_in.q_error <= q_errors \/ pick_out.q_error <= q_errors

\* q_error_in <= q_errors and q_error_out <= q_errors
Tolerated == pick_in.q_error <= q_errors /\ pick_out.q_error <= q_errors

\* max(q_errors_out, q_errors_in)
Reported ==
    Fin(IF pick_out.q_error >= pick_in.q_error
        THEN pick_out.q_error ELSE pick_in.q_error)

\* q_error_out >= q_error_in
OutChosen == pick_out.q_error >= pick_in.q_error

Picked == [bound |-> TRUE, in |-> pick_in, out |-> pick_out]

Unbound ==
    LET none == [i |-> 0, j |-> 0, split_deg |-> [sum |-> 0, count |-> 0],
                 q_error |-> 0]
    IN  [bound |-> FALSE, in |-> none, out |-> none]

\* entry of q_color up to the loop: the two statuses are constructed, then
\* initialised one after the other; the call ends where one of these raises
QColor(nc, qe) ==
    /\ pc = "constructed"
    /\ n_colors' = nc
    /\ q_errors' = qe
    /\ IF ~Constructible(Capacity(nc))
       THEN /\ UNCHANGED <<color_status_out, color_status_in>>
            /\ pc' = "raised"
       ELSE \E out \in {init_status(ColorStatus(Capacity(nc)), weights, p, v)} :
            \E in \in {IF out.ok
                       THEN init_status(ColorStatus(Capacity(nc)),
                                        weights_transpose, p, v)
                       ELSE [ok |-> FALSE,
                             cs |-> ColorStatus(Capacity(nc))]} :
                /\ color_status_out' = out.cs
                /\ color_status_in' = in.cs
                /\ pc' = IF in.ok THEN "loop" ELSE "raised"
    /\ UNCHANGED <<G, p, q_error, locals>>

\* the while condition is false: the final report
LoopExit ==
    /\ pc = "loop"
    /\ ~LessThanCap(NumColors(p), n_colors)
    /\ q_error' = Reported
    /\ pc' = "stopped"
    /\ UNCHANGED <<G, p, n_colors, q_errors, color_status_out,
                   color_status_in, locals>>

\* an iteration that ends in break, and the final report
LoopBreak ==
    /\ pc = "loop"
    /\ LessThanCap(NumColors(p), n_colors)
    /\ Tolerated
    /\ color_status_out' = Grown(color_status_out)
    /\ color_status_in' = Grown(color_status_in)
    /\ locals' = Picked
    /\ q_error' = Reported
    /\ pc' = "stopped"
    /\ UNCHANGED <<G, p, n_colors, q_errors>>

\* the body of either branch: split on the chosen status' witness, then
\* update the outgoing and the incoming status; a failed assertion ends the
\* call, and so does an update that raises
Refine(chosen, pick) ==
    \E r \in {split_color(chosen, p, pick.i, pick.j, pick.split_deg)} :
        /\ locals' = Picked
        /\ IF r.ok
           THEN \E out \in {update_status(Grown(color_status_out), weights_cpu,
                                          r.p, pick.i, NumColors(r.p) - 1)} :
                \E in \in {IF out.ok
                           THEN update_status(Grown(color_status_in),
                                              weights_transpose_cpu, r.p,
                                              pick.i, NumColors(r.p) - 1)
                           ELSE [ok |-> FALSE,
                                 cs |-> Grown(color_status_in)]} :
                    /\ p' = r.p
                    /\ color_status_out' = out.cs
                    /\ color_status_in' = in.cs
                    /\ pc' = IF in.ok THEN "loop" ELSE "raised"
           ELSE /\ p' = p
                /\ color_status_out' = Grown(color_status_out)
                /\ color_status_in' = Grown(color_status_in)
                /\ pc' = "failed"
        /\ UNCHANGED <<G, q_error, n_colors, q_errors>>

\* an iteration that splits on the outgoing status' witness
SplitOut ==
    /\ pc = "loop"
    /\ LessThanCap(NumColors(p), n_colors)
    /\ ~Tolerated
    /\ OutChosen
    /\ \E pick \in {pick_out} : Refine(color_status_out, pick)

\* an iteration that splits on the incoming status' witness
SplitIn ==
    /\ pc = "loop"
    /\ LessThanCap(NumColors(p), n_colors)
    /\ ~Tolerated
    /\ ~OutChosen
    /\ \E pick \in {pick_in} : Refine(color_status_in, pick)

-----------------------------------------------------------------------------
(* Inputs *)

RECURSIVE AdjUpTo(_, _)
\* the nv x nv weight matrices of total weight at most k
AdjUpTo(nv, k) ==
    IF k = 0
    THEN {[r \in Range0(nv) |-> [c \in Range0(nv) |-> 0]]}
    ELSE LET S == AdjUpTo(nv, k - 1)
         IN  S \cup {[a EXCEPT ![r][c] = @ + 1] :
                        a \in S, r \in Range0(nv), c \in Range0(nv)}

\* the graphs of at most n nodes and total weight at most k
GraphsUpTo(n, k) ==
    UNION {{[num_nodes |-> nv, adj_t |-> a] : a \in AdjUpTo(nv, k)} :
              nv \in 1 .. n}

\* the caps -1, -0.5, 0, 0.5, 1, ... and np.Inf
NColorsSet == {Halves(h) : h \in (-2) .. (2 * MaxColors + 1)} \cup {Inf}

QErrorsSet == (-1) .. MaxQErrors

\* QuasiStableColoring.__init__
Constructed(g) ==
    /\ G = g
    /\ p = [c \in {0} |-> arange(g.num_nodes)]
    /\ q_error = Inf
    /\ n_colors = Inf
    /\ q_errors = 0
    /\ color_status_out = ColorStatus(0)
    /\ color_status_in = ColorStatus(0)
    /\ locals = Unbound
    /\ pc = "constructed"

Init == \E g \in GraphsUpTo(MaxNodes, MaxTotalWeight) : Constructed(g)

Next ==
    \/ \E nc \in NColorsSet, qe \in QErrorsSet : QColor(nc, qe)
    \/ LoopExit
    \/ LoopBreak
    \/ SplitOut
    \/ SplitIn

Spec == Init /\ [][Next]_vars

\* largest total edge weight of an input graph of FairSpec
MaxFairWeight == 3

InitFair == \E g \in GraphsUpTo(MaxNodes, MaxFairWeight) : Constructed(g)

\* q_color runs to completion once called: a call that can take a step
\* eventually takes it
FairSpec == InitFair /\ [][Next]_vars /\ WF_vars(Next)

-----------------------------------------------------------------------------
(* q_color() with its default arguments (n_colors=np.Inf, q_errors=0.0),   *)
(* on graphs of larger total weight.                                       *)

\* largest number of nodes of an input graph of DefaultSpec
MaxDenseNodes == 3

\* largest total edge weight of an input graph of DefaultSpec
MaxDenseWeight == 7

InitDefault ==
    \E g \in GraphsUpTo(MaxDenseNodes, MaxDenseWeight) : Constructed(g)

NextDefault ==
    \/ QColor(Inf, 0)
    \/ LoopBreak
    \/ SplitOut
    \/ SplitIn

DefaultSpec == InitDefault /\ [][NextDefault]_vars

-----------------------------------------------------------------------------
(* The end-to-end scenario: edges 0->1 (1), 0->2 (5), 1->2 (1), 3->2 (5).  *)

\* the matrix with entry [u][x] = w(u -> x)
ScenarioAdjacency ==
    [u \in 0 .. 3 |-> [x \in 0 .. 3 |->
        IF <<u, x>> = <<0, 1>> THEN 1
        ELSE IF <<u, x>> = <<0, 2>> THEN 5
        ELSE IF <<u, x>> = <<1, 2>> THEN 1
        ELSE IF <<u, x>> = <<3, 2>> THEN 5
        ELSE 0]]

\* adj_t holds the transposed adjacency; a caller that stores the adjacency
\* itself in adj_t is covered as well
ScenarioGraphs ==
    {[num_nodes |-> 4, adj_t |-> Transpose(ScenarioAdjacency)],
     [num_nodes |-> 4, adj_t |-> ScenarioAdjacency]}

ScenarioNColors == {Halves(h) : h \in (-2) .. 9} \cup {Inf}

InitScenario == \E g \in ScenarioGraphs : Constructed(g)

NextScenario ==
    \/ \E nc \in ScenarioNColors, qe \in QErrorsSet : QColor(nc, qe)
    \/ LoopExit
    \/ LoopBreak
    \/ SplitOut
    \/ SplitIn

ScenarioSpec == InitScenario /\ [][NextScenario]_vars

-----------------------------------------------------------------------------
(* Properties *)

Started == pc \in {"loop", "stopped", "failed"}

\* the cap is a whole number, at least 1
IsIntegral(nc) == ~nc.inf /\ nc.halves % 2 = 0 /\ nc.halves >= 2

\* the members of color c
Members(c) == ValuesOf(p[c])

\* the iteration recorded in locals took the outgoing branch
ActedOut == locals.out.q_error >= locals.in.q_error

\* the witness the last iteration acted on, and the status it came from
Acted == IF ActedOut THEN locals.out ELSE locals.in

ActedStatus == IF ActedOut THEN color_status_out ELSE color_status_in

\* the last iteration performed a split
JustSplit == pc = "loop" /\ locals.bound

RECURSIVE SumOverSet(_, _)
SumOverSet(f, S) ==
    IF S = {} THEN 0
    ELSE LET x == CHOOSE y \in S : TRUE
         IN  f[x] + SumOverSet(f, S \ {x})

\* a status agrees with its definition for the current partition
MatchesDefinition(cs, w) ==
    /\ DOMAIN cs.neighbor = Range0(v)
    /\ \A node \in Range0(v) : DOMAIN cs.neighbor[node] = DOMAIN p
    /\ DOMAIN cs.errors = DOMAIN p
    /\ \A node \in Range0(v), j \in DOMAIN p :
           cs.neighbor[node][j] = SumOverSet(w[node], Members(j))
    /\ \A i \in DOMAIN p, j \in DOMAIN p :
           /\ cs.upper[i][j] \in {cs.neighbor[x][j] : x \in Members(i)}
           /\ cs.lower[i][j] \in {cs.neighbor[x][j] : x \in Members(i)}
           /\ \A x \in Members(i) :
                  cs.lower[i][j] <= cs.neighbor[x][j]
                      /\ cs.neighbor[x][j] <= cs.upper[i][j]
           /\ cs.errors[i][j] = cs.upper[i][j] - cs.lower[i][j]

\* a status is what init_status computes from scratch for the partition
MatchesInit(cs, w) == init_status(cs, w, p, v) = [ok |-> TRUE, cs |-> cs]

\* the largest error of a status over its active block
MaxError(cs) ==
    MaxOf({cs.errors[i][j] : i \in DOMAIN cs.errors, j \in DOMAIN cs.errors})

\* the spread of the row sums of w: the only error of the one-color state
OneColorError(w) ==
    LET total == [node \in DOMAIN w |-> SumOverSet(w[node], DOMAIN w)]
        all == {total[node] : node \in DOMAIN w}
    IN  MaxOf(all) - MinOf(all)

InitialPartition == [c \in {0} |-> arange(v)]

\* both statuses were initialised, and both directions are within tolerance
\* in the one-color state
ToleratedAtStart ==
    /\ Started
    /\ OneColorError(G.adj_t) <= q_errors
    /\ OneColorError(Transpose(G.adj_t)) <= q_errors

\* C1: in every reachable state the colors are non-empty, pairwise disjoint
\* and together cover exactly the nodes 0 .. v-1
C1_PartitionInvariant ==
    /\ \A c \in DOMAIN p : Len(p[c]) >= 1
    /\ \A c \in DOMAIN p, d \in DOMAIN p :
           c # d => Members(c) \cap Members(d) = {}
    /\ UNION {Members(c) : c \in DOMAIN p} = Range0(v)

\* C1 witness: refinement ran down to one color per node of a 3-node graph
C1_Witness == pc = "stopped" /\ v >= 3 /\ NumColors(p) = v

\* C2 as stated: after each split the acted witness pair's error in the
\* chosen status is not greater than before the split, also when i = j
C2_Original ==
    JustSplit => ActedStatus.errors[Acted.i][Acted.j] <= Acted.q_error

\* C2 amended: after each split on a witness (i, j) with i # j, the error
\* [i][j] of the chosen status is not greater than before the split
C2_ReductionOffDiagonal ==
    (JustSplit /\ Acted.i # Acted.j) =>
        ActedStatus.errors[Acted.i][Acted.j] <= Acted.q_error

\* C2 witness: a split on an off-diagonal witness with positive error
C2_Witness ==
    JustSplit /\ Acted.i # Acted.j /\ Acted.q_error > 0
        /\ ActedStatus.errors[Acted.i][Acted.j] < Acted.q_error

\* C3: on the scenario graph with n_colors = 4 and q_errors = 0 the call
\* never raises or fails an assertion and stops with 3 or 4 colors,
\* q_error = 0, node 1 apart from nodes 0 and 3, and node 2 alone in its color
C3_EndToEnd ==
    (G \in ScenarioGraphs /\ pc # "constructed" /\ n_colors = Fin(4)
        /\ q_errors = 0) =>
        /\ pc \notin {"failed", "raised"}
        /\ pc = "stopped" =>
              /\ NumColors(p) \in {3, 4}
              /\ q_error = Fin(0)
              /\ \A c \in DOMAIN p :
                     /\ 1 \in Members(c) => (0 \notin Members(c) /\ 3 \notin Members(c))
                     /\ 2 \in Members(c) => Members(c) = {2}

\* C3 witness: the scenario run has stopped
C3_Witness ==
    /\ G \in ScenarioGraphs
    /\ n_colors = Fin(4)
    /\ q_errors = 0
    /\ pc = "stopped"

\* C4: if both directions are within tolerance in the one-color state, the
\* call never splits and stops with the one-color partition
C4_IdempotentStop ==
    /\ [](ToleratedAtStart => (p = InitialPartition /\ pc # "failed"))
    /\ (ToleratedAtStart ~> (pc = "stopped" /\ p = InitialPartition))

\* C4 witness: stopped on tolerance, below the cap, with several nodes
C4_Witness ==
    /\ ToleratedAtStart
    /\ pc = "stopped"
    /\ v >= 2
    /\ LessThanCap(NumColors(p), n_colors)

\* C5: for an integral cap the number of colors never exceeds n_colors, and
\* the partition no longer changes once the cap is reached
C5_ColorCap ==
    /\ []((Started /\ IsIntegral(n_colors)) =>
              2 * NumColors(p) <= n_colors.halves)
    /\ [][(Started /\ IsIntegral(n_colors)
              /\ 2 * NumColors(p) >= n_colors.halves) => p' = p]_vars

\* C5 witness: stopped at an integral cap with the error still above tolerance
C5_Witness ==
    /\ pc = "stopped"
    /\ IsIntegral(n_colors)
    /\ 2 * NumColors(p) = n_colors.halves
    /\ NumColors(p) >= 2
    /\ q_error.halves > 2 * q_errors

\* C6: a step that changes the partition adds exactly one color; the split
\* color keeps the members not above the threshold, the new last color gets
\* the members above it, and every other color is unchanged
C6_SplitFrame ==
    [][p' # p =>
        LET m == NumColors(p)
            out == locals'.out.q_error >= locals'.in.q_error
            w == IF out THEN locals'.out ELSE locals'.in
            cs == IF out THEN color_status_out ELSE color_status_in
            above == {x \in Members(w.i) :
                         cs.neighbor[x][w.j] * w.split_deg.count
                             > w.split_deg.sum}
        IN  /\ DOMAIN p' = 0 .. m
            /\ ValuesOf(p'[w.i]) = Members(w.i) \ above
            /\ ValuesOf(p'[m]) = above
            /\ above # {}
            /\ above # Members(w.i)
            /\ \A k \in DOMAIN p : k # w.i => p'[k] = p[k]]_vars

\* C6 witness: a split was made while another color existed
C6_Witness ==
    /\ JustSplit
    /\ NumColors(p) >= 3
    /\ Acted.i # NumColors(p) - 2

\* C7: a call that stops below the cap reports q_error, the largest error of
\* both statuses over the active block, and it is within tolerance
C7_ToleranceOnStop ==
    (pc = "stopped" /\ LessThanCap(NumColors(p), n_colors)) =>
        /\ ~q_error.inf
        /\ q_error.halves <= 2 * q_errors
        /\ q_error.halves =
               2 * MaxOf({MaxError(color_status_out), MaxError(color_status_in)})

\* C7 witness: stopped below the cap after a split, with a positive error left
C7_Witness ==
    /\ pc = "stopped"
    /\ LessThanCap(NumColors(p), n_colors)
    /\ NumColors(p) >= 2
    /\ q_error.halves > 0

\* C8: after init_status and after every split both statuses equal their
\* definition for the current partition, and equal what init_status computes
\* from scratch
C8_IncrementalEqualsFull ==
    Started =>
        /\ MatchesDefinition(color_status_out, G.adj_t)
        /\ MatchesDefinition(color_status_in, Transpose(G.adj_t))
        /\ MatchesInit(color_status_out, G.adj_t)
        /\ MatchesInit(color_status_in, Transpose(G.adj_t))

\* C8 witness: a split left a cell outside the touched rows and columns,
\* and that cell carries a positive bound
C8_Witness ==
    /\ JustSplit
    /\ \E k \in DOMAIN p :
           /\ k # Acted.i
           /\ k # NumColors(p) - 1
           /\ color_status_out.upper[k][k] > 0

\* C9: with q_errors >= 0 no assertion of split_color ever fails
C9_NoDegenerateSplit == q_errors >= 0 => pc # "failed"

\* C9 witness: a split succeeded under a non-negative tolerance
C9_Witness == JustSplit /\ q_errors >= 0 /\ NumColors(p) >= 2

\* C10: with q_errors >= 0 the main loop, once entered, reaches Stopped
\* (it neither runs forever nor ends in a failed assertion or a raise), after
\* at most v - 1 splits
C10_Termination ==
    /\ ((pc = "loop" /\ q_errors >= 0) ~> pc = "stopped")
    /\ [](q_errors >= 0 => NumColors(p) - 1 <= v - 1)

\* C10 witness: an uncapped call stopped after exactly v - 1 splits
C10_Witness ==
    /\ pc = "stopped"
    /\ n_colors.inf
    /\ q_errors >= 0
    /\ v >= 3
    /\ NumColors(p) - 1 = v - 1

=============================================================================
